---- MODULE Spec2Model ----
(***************************************************************************)
(* Model of the narration-synchronized composition engine of              *)
(* stoic-wisdom-shorts: TTSEngine.generate_full_audio (core/tts_engine.py),*)
(* get_dynamic_background (core/stock_footage.py), pick_random_background  *)
(* (core/background.py) and generate_stoic_short (core/video_generator.py).*)
(*                                                                         *)
(* Times are integers in milliseconds (the code divides by 1000.0 and      *)
(* works in float seconds; 0.3 s is 300 here).  Audio clips are numbers of *)
(* PCM frames; a clip's length in ms is pydub's len(): the frame count     *)
(* scaled by the frame rate and rounded.                                   *)
(***************************************************************************)
EXTENDS Integers, Sequences, FiniteSets, TLC

VARIABLES
    pc,               \* position in the running function
    err,              \* "none", or the exception that ended the run
    caller,           \* "generate_stoic_short", or "direct" for a bare call
    hook_text,        \* TRUE iff quote_data["hook_intro"] is a non-empty string
    reflection_text,  \* TRUE iff quote_data["reflection"] is a non-empty string
    hook_audio,       \* frames of the decoded _tts_hook.mp3 (-1: not loaded)
    quote_audio,
    author_audio,
    reflection_audio,
    temp_files,       \* generate_full_audio's temp_files list
    audio_dir,        \* files present in AUDIO_DIR
    timing,           \* the timing dict (ms), NoTiming before it is built
    audio_duration,   \* duration returned by generate_full_audio (ms), -1 before
    total_duration,   \* total visual duration (ms), -1 before
    api_key,          \* TRUE iff PEXELS_API_KEY is set
    people,           \* the clips whose frames show a person
    pool,             \* the *.mp4 files of BACKGROUNDS_DIR (the static pool)
    disk,             \* the *.mp4 files of DOWNLOAD_DIR, oldest mtime first
    partial,          \* files of DOWNLOAD_DIR cut short by a failed download
    cached_files,     \* get_dynamic_background's cached_files list
    scan_i,           \* index of the next cached file a tier looks at
    attempt,          \* iterations of the remote loop done so far
    tried_queries,    \* get_dynamic_background's tried_queries set
    searches,         \* calls of search_pexel_video in this acquisition
    filter_log,       \* calls of _video_has_people in this acquisition, in order
    bg_result,        \* get_dynamic_background's return value (None before)
    bg_path,          \* the background generate_stoic_short grades
    layers,           \* the layers list handed to CompositeVideoClip
    detector,         \* the detection backend and the frames it is given
    verdict,          \* has_people's answer: "people", "no people" ("unset" before)
    handles,          \* the media handles generate_stoic_short holds open
    ken_burns,        \* how the zoom step behaves in this run (KenBurnsModes)
    ambient,          \* how the ambient bed behaves in this run (AmbientModes)
    background,       \* the graded clip: "static", "animated" ("none" before)
    audio_track,      \* final_audio: "narration", "mix" ("none" before)
    video_file,       \* the file at output_path: "absent", "partial", "complete"
    stages,           \* log of the pipeline stages in the order they start
    text_cache,       \* PILTextRenderer._cache: (cache key, image) pairs
    render_args,      \* the arguments of the last render_text call
    raster,           \* the image the last render_text call returned
    word_count,       \* the argument of the last get_font_settings call
    font_settings,    \* the dict the last get_font_settings call returned
    zoom_clip,        \* the clip apply_ken_burns_effect was given
    frame_t,          \* the time of the last frame zoom_effect rendered (-1: none)
    crop,             \* the crop box of that frame
    prev_t,           \* the time of the frame rendered before it
    prev_crop,        \* the crop box of the frame rendered before it
    total_quotes,     \* manager.get_total_quotes()
    progress,         \* current_index of the QuoteProgress row (NoRow: no row)
    sched_call,       \* the last scheduler call made directly
    history,          \* the QuoteHistory rows, oldest first
    cmd,              \* the command main.py runs, with its arguments
    batch_i,          \* the video the command is at (1 for generate and auto)
    quote,            \* index of the quote get_next_quote returned (-1: none)
    gen_result,       \* generate_stoic_short for this video: "none" before,
                      \* "returned", "raised"
    snapshot,         \* history size and position when this video began
    cleaned           \* what the last cleanup_audio_files() returned (-1: none)

inputVars == <<caller, hook_text, reflection_text>>
ttsVars == <<hook_audio, quote_audio, author_audio, reflection_audio,
             temp_files>>
narrationVars == <<timing, audio_duration>>
detVars == <<detector, verdict>>
envVars == <<api_key, people, pool, detVars, ken_burns, ambient>>
mediaVars == <<handles, video_file, background, audio_track>>
cacheVars == <<disk, partial>>
bgVars == <<cached_files, scan_i, attempt, tried_queries, searches,
            filter_log, bg_result>>

textVars == <<text_cache, render_args, raster>>
fontVars == <<word_count, font_settings>>
zoomVars == <<zoom_clip, frame_t, crop, prev_t, prev_crop>>
schedVars == <<total_quotes, progress, sched_call>>
cmdVars == <<history, cmd, batch_i, quote, gen_result, snapshot>>
libVars == <<textVars, fontVars, zoomVars, schedVars, cmdVars, cleaned>>

runVars == <<err, inputVars, ttsVars, audio_dir, narrationVars,
             total_duration, envVars, mediaVars,
             cacheVars, bgVars, bg_path, layers,
             stages>>
pipelineVars == <<pc, runVars>>

vars == <<pipelineVars, libVars>>

----------------------------------------------------------------------------
(* Bounds of the model *)

\* Speech clips are MaxUnits sizes of FrameUnit frames, plus 0..MaxJitter frames.
MaxUnits == 2
MaxJitter == 0
\* 330749 frames at 44.1 kHz are 7499.977 ms, which len() rounds to 7500 ms.
FrameUnit == 330749
\* Videos the remote provider and the download cache can hold.
MaxClips == 2
\* Files the static pool can hold.
MaxStatic == 1
\* Search terms kept of settings.STOCK_SEARCH_QUERIES (the list holds 12; one
\* acquisition draws at most 3 of them).
NumQueries == 3
\* Files a cache directory can hold beyond cleanup_cache's max_files when a
\* call starts (a failed download leaves its file without a cleanup).
MaxExtra == 1
\* Frames has_people gets to look at (it samples num_frames = 5), and the
\* largest detection weight, in tenths.
MaxFrames == 2
MaxWeight == 4

\* render_text is called with MaxTexts texts and with stroke widths from the
\* default to MaxStrokeExtra above it.
MaxTexts == 2
MaxStrokeExtra == 1

\* get_font_settings is called with 0..MaxWords words.
MaxWords == 1001

\* Clips of 1..MaxDuration time units are zoomed by the default ratio plus
\* up to MaxZoomExtra hundredths.
MaxDuration == 3
MaxZoomExtra == 2

\* The quotes database holds 1..MaxQuotes quotes and a batch makes
\* 1..MaxBatch videos.
MaxQuotes == 4
MaxBatch == 2

----------------------------------------------------------------------------
(* Program constants *)

SPEECH_FRAME_RATE == 44100    \* output_format="mp3_44100_128"
SILENT_FRAME_RATE == 11025    \* pydub's default for AudioSegment.silent
INTRO_SILENCE_MS == 500
PAUSE_AFTER_HOOK_MS == 1200
PAUSE_AFTER_QUOTE_MS == 800
PAUSE_AFTER_AUTHOR_MS == 1500
OUTRO_SILENCE_MS == 800
CTA_DURATION_MS == 4000
MIN_DURATION_MS == 30000
MAX_DURATION_MS == 58000
MAX_ATTEMPTS == 3             \* for _ in range(3)
REUSE_TRIES == 3              \* cached_files[:3]
MAX_CACHE_FILES == 20         \* cleanup_cache(max_files=20)
None == 0

Min(a, b) == IF a < b THEN a ELSE b
Max(a, b) == IF a > b THEN a ELSE b

----------------------------------------------------------------------------
(* pydub.AudioSegment, by frame counts *)

\* len(segment): round(1000 * frame_count / frame_rate).  No frame count at
\* 44100 Hz falls on a half millisecond, so round-half-up is Python's round.
\* (1000 * f / 44100 is 10 * f / 441, kept small for 32-bit arithmetic.)
LenMs(frames) ==
    LET per10ms == SPEECH_FRAME_RATE \div 100
    IN (20 * frames + per10ms) \div (2 * per10ms)

\* AudioSegment.silent(duration=ms): int(frame_rate * (ms / 1000.0)) frames
\* at 11025 Hz.
SilentFrames(ms) == (SILENT_FRAME_RATE * ms) \div 1000

\* seg1 + seg2 brings both to the higher frame rate: a silence is resampled
\* from 11025 Hz to 44100 Hz by audioop.ratecv, which yields 4n - 3 frames.
Resampled(n) == IF n = 0 THEN 0 ELSE 4 * n - 3

\* full_audio = segments[0] + segments[1] + ... : the frames add up.
RECURSIVE ConcatFrames(_)
ConcatFrames(segs) ==
    IF segs = <<>> THEN 0
    ELSE (IF Head(segs).kind = "silence"
            THEN Resampled(SilentFrames(Head(segs).ms))
            ELSE Head(segs).frames)
         + ConcatFrames(Tail(segs))

----------------------------------------------------------------------------
(* TTSEngine.generate_full_audio *)

Silence(ms) == [kind |-> "silence", ms |-> ms, frames |-> 0]
Speech(frames) == [kind |-> "speech", ms |-> 0, frames |-> frames]

\* The segments list, in the order of the appends.
Segments(h, q, a, r) ==
    << Silence(INTRO_SILENCE_MS), Speech(h),
       Silence(PAUSE_AFTER_HOOK_MS), Speech(q),
       Silence(PAUSE_AFTER_QUOTE_MS), Speech(a),
       Silence(PAUSE_AFTER_AUTHOR_MS), Speech(r),
       Silence(OUTRO_SILENCE_MS) >>

\* What one append adds to cursor_ms: the literal for a silence, len() for
\* a speech clip.
Advance(seg) == IF seg.kind = "silence" THEN seg.ms ELSE LenMs(seg.frames)

\* cursor_ms after the first n appends.
RECURSIVE CursorAfter(_, _)
CursorAfter(segs, n) ==
    IF n = 0 THEN 0 ELSE CursorAfter(segs, n - 1) + Advance(segs[n])

\* A start offset taken after the clip was inserted.
SegStart_AfterAppend(segs, n) == CursorAfter(segs, n)

\* start = cursor before the append of segs[n], end = cursor after it.
SegStart(segs, n) == CursorAfter(segs, n - 1)
SegEnd(segs, n) == CursorAfter(segs, n)

\* duration_seconds = len(full_audio) / 1000.0
FullAudioLen(segs) == LenMs(ConcatFrames(segs))

NoTiming == [hook_start |-> -1, hook_end |-> -1, quote_start |-> -1,
             quote_end |-> -1, author_start |-> -1, author_end |-> -1,
             reflection_start |-> -1, reflection_end |-> -1,
             total_duration |-> -1]

BuildTiming(h, q, a, r) ==
    LET segs == Segments(h, q, a, r) IN
    [hook_start |-> SegStart(segs, 2),
     hook_end |-> SegEnd(segs, 2),
     quote_start |-> SegStart(segs, 4),
     quote_end |-> SegEnd(segs, 4),
     author_start |-> SegStart(segs, 6),
     author_end |-> SegEnd(segs, 6),
     reflection_start |-> SegStart(segs, 8),
     reflection_end |-> SegEnd(segs, 8),
     total_duration |-> FullAudioLen(segs)]

\* Frame counts the TTS backend returns for a non-empty text.
SegFrames == {k * FrameUnit + j : k \in 1..MaxUnits, j \in 0..MaxJitter}

\* An MPEG-1 Layer III frame holds 1152 samples: the shortest audio an MP3
\* file with any audio in it decodes to.
MP3_FRAME_SAMPLES == 1152

\* generate_speech passes an empty text to the backend like any other, and
\* treats an answer of no bytes as a failure: an answer it accepts is a file
\* that decodes to no samples at all or to at least one MP3 frame.
EmptyTextFrames == {0, MP3_FRAME_SAMPLES}

FramesFor(nonempty) == IF nonempty THEN SegFrames ELSE EmptyTextFrames


RECURSIVE Range(_)
Range(s) == IF s = <<>> THEN {} ELSE {Head(s)} \cup Range(Tail(s))

\* tts = TTSEngine(): raises TTSError when the elevenlabs package or the API
\* key is missing.
StartNarration ==
    /\ pc = "start"
    /\ stages' = Append(stages, "narration")
    /\ \/ /\ pc' = "tts_hook"
          /\ err' = err
       \/ /\ pc' = "failed"
          /\ err' = "TTSError"
    /\ UNCHANGED <<libVars, inputVars, ttsVars, audio_dir, narrationVars,
                   total_duration, envVars, mediaVars,
                   cacheVars, bgVars, bg_path,
                   layers>>

\* A failed segment tried again instead of ending the call.
TtsFail_Retries(path) ==
    /\ audio_dir' = audio_dir
    /\ err' = "TTSError"
    /\ pc' = pc
    /\ UNCHANGED ttsVars

\* generate_speech(text, path) raising TTSError: the backend is unreachable
\* or answers with an error or with no bytes.  The output file is opened for
\* writing before the stream is read, so it may be left behind.
TtsFail(path) ==
    /\ \E left \in BOOLEAN :
          audio_dir' = IF left THEN audio_dir \cup {path} ELSE audio_dir
    /\ err' = "TTSError"
    /\ pc' = "failed"
    /\ UNCHANGED ttsVars

\* generate_speech(text, path), AudioSegment.from_file(path) and
\* temp_files.append(path) for one segment.
GenerateHook ==
    /\ pc = "tts_hook"
    /\ \/ /\ \E f \in FramesFor(hook_text) : hook_audio' = f
          /\ temp_files' = Append(temp_files, "_tts_hook")
          /\ audio_dir' = audio_dir \cup {"_tts_hook"}
          /\ pc' = "tts_quote"
          /\ UNCHANGED <<err, quote_audio, author_audio, reflection_audio>>
       \/ TtsFail("_tts_hook")
    /\ UNCHANGED <<libVars, inputVars, narrationVars, total_duration, envVars, mediaVars,
                   cacheVars, bgVars, bg_path, layers, stages>>

GenerateQuote ==
    /\ pc = "tts_quote"
    /\ \/ /\ \E f \in FramesFor(TRUE) : quote_audio' = f
          /\ temp_files' = Append(temp_files, "_tts_quote")
          /\ audio_dir' = audio_dir \cup {"_tts_quote"}
          /\ pc' = "tts_author"
          /\ UNCHANGED <<err, hook_audio, author_audio, reflection_audio>>
       \/ TtsFail("_tts_quote")
    /\ UNCHANGED <<libVars, inputVars, narrationVars, total_duration, envVars, mediaVars,
                   cacheVars, bgVars, bg_path, layers, stages>>

GenerateAuthor ==
    /\ pc = "tts_author"
    /\ \/ /\ \E f \in FramesFor(TRUE) : author_audio' = f
          /\ temp_files' = Append(temp_files, "_tts_author")
          /\ audio_dir' = audio_dir \cup {"_tts_author"}
          /\ pc' = "tts_reflection"
          /\ UNCHANGED <<err, hook_audio, quote_audio, reflection_audio>>
       \/ TtsFail("_tts_author")
    /\ UNCHANGED <<libVars, inputVars, narrationVars, total_duration, envVars, mediaVars,
                   cacheVars, bgVars, bg_path, layers, stages>>

GenerateReflection ==
    /\ pc = "tts_reflection"
    /\ \/ /\ \E f \in FramesFor(reflection_text) : reflection_audio' = f
          /\ temp_files' = Append(temp_files, "_tts_reflection")
          /\ audio_dir' = audio_dir \cup {"_tts_reflection"}
          /\ pc' = "compose"
          /\ UNCHANGED <<err, hook_audio, quote_audio, author_audio>>
       \/ TtsFail("_tts_reflection")
    /\ UNCHANGED <<libVars, inputVars, narrationVars, total_duration, envVars, mediaVars,
                   cacheVars, bgVars, bg_path, layers, stages>>

\* The transient per-segment files and the final narration file of AUDIO_DIR.
TransientFiles == {"_tts_hook", "_tts_quote", "_tts_author", "_tts_reflection"}
FinalNarration == "quote_tts"

\* Compose with pauses, unlink the temp files, export the final file and
\* build the timing dict.  full_audio.export(...) can raise (pydub's
\* CouldntEncodeError), after the temp files are gone and with or without
\* the output file created.
ComposeAudio ==
    /\ pc = "compose"
    /\ \/ /\ timing' = BuildTiming(hook_audio, quote_audio, author_audio,
                                   reflection_audio)
          /\ audio_duration' = timing'.total_duration
          /\ audio_dir' = (audio_dir \ Range(temp_files))
                            \cup {FinalNarration}
          /\ pc' = "tts_return"
          /\ err' = err
       \/ /\ \E created \in BOOLEAN :
                audio_dir' = (audio_dir \ Range(temp_files))
                             \cup (IF created THEN {FinalNarration} ELSE {})
          /\ pc' = "failed"
          /\ err' = "CouldntEncodeError"
          /\ UNCHANGED narrationVars
    /\ UNCHANGED <<libVars, inputVars, ttsVars, total_duration, envVars, mediaVars,
                   cacheVars, bgVars, bg_path, layers, stages>>

\* return output_path, duration_seconds, timing: the locals go out of scope.
ReturnFullAudio ==
    /\ pc = "tts_return"
    /\ hook_audio' = -1
    /\ quote_audio' = -1
    /\ author_audio' = -1
    /\ reflection_audio' = -1
    /\ temp_files' = <<>>
    /\ pc' = IF caller = "generate_stoic_short" THEN "duration" ELSE "done"
    /\ UNCHANGED <<libVars, err, inputVars, audio_dir, narrationVars, total_duration,
                   envVars, mediaVars,
                   cacheVars, bgVars, bg_path, layers, stages>>

----------------------------------------------------------------------------
(* generate_stoic_short: total duration *)

\* The duration without the floor at MIN_DURATION.
TotalDuration_NoFloor(audio) == Min(audio + CTA_DURATION_MS, MAX_DURATION_MS)

\* total_duration = min(audio_duration + cta_duration, MAX_DURATION), then
\* max(total_duration, MIN_DURATION).
TotalDuration(audio) ==
    Max(Min(audio + CTA_DURATION_MS, MAX_DURATION_MS), MIN_DURATION_MS)

\* The pipeline with the background graded before it is acquired.
ComputeDuration_GradesFirst ==
    /\ pc = "duration"
    /\ total_duration' = TotalDuration(audio_duration)
    /\ bg_path' = [src |-> "static", clip |-> 1]
    /\ pc' = "grade"
    /\ UNCHANGED <<libVars, err, inputVars, ttsVars, audio_dir, narrationVars,
                   envVars, mediaVars, cacheVars, bgVars, layers, stages>>

ComputeDuration ==
    /\ pc = "duration"
    /\ total_duration' = TotalDuration(audio_duration)
    /\ pc' = "bg_start"
    /\ UNCHANGED <<libVars, err, inputVars, ttsVars, audio_dir, narrationVars,
                   envVars, mediaVars,
                   cacheVars, bgVars, bg_path, layers, stages>>

----------------------------------------------------------------------------
(* core/stock_footage.py: get_dynamic_background *)

Clips == 1..MaxClips
SEARCH_QUERIES == 1..NumQueries

\* The orders in which a directory listing or a shuffle can give the set S.
Perms(S) ==
    {s \in [1..Cardinality(S) -> S] : \A i, j \in 1..Cardinality(S) :
                                          s[i] = s[j] => i = j}

Remove(d, c) == SelectSeq(d, LAMBDA x : x # c)

\* has_people(path): TRUE iff a sampled frame shows a person.  A file that
\* is missing gives no frames; one cut short gives the frames it still holds.
HasPeopleOutcomes(c, files) ==
    IF c \notin Range(files) THEN {FALSE}
    ELSE IF c \in partial THEN {FALSE, (c \in people)}
    ELSE {(c \in people)}

\* cleanup_cache(): with more than max_files files, the oldest by mtime go.
CleanupCache(d) ==
    IF Len(d) > MAX_CACHE_FILES
    THEN SubSeq(d, Len(d) - MAX_CACHE_FILES + 1, Len(d))
    ELSE d

\* search_pexel_video(query): None without an API key, on a failed or timed
\* out request, a non-200 answer or no video of 15..90 s; else one video.
SearchOutcomes == IF api_key THEN {None} \cup Clips ELSE {None}

\* download_video(video_data): no usable file entry; the file is already in
\* the cache; the download succeeds; or it fails, before the output file is
\* opened or while it is written.
DownloadOutcomes(v) ==
    IF v \in Range(disk) THEN {"none", "exists"}
    ELSE {"none", "ok", "fail", "fail_partial"}

\* A candidate with the filter's verdict inverted.
Accepts_Inverted(r) == r

\* if not _video_has_people(f): the candidate is accepted.
Accepts(r) == ~r

\* ensure_download_dir(), cached_files = list(glob), and the 20% draw that
\* shuffles the list and enters the cache-reuse tier.
BgStart ==
    /\ pc = "bg_start"
    /\ stages' = Append(stages, "acquisition")
    /\ \E listing \in Perms(Range(disk)), reuse \in BOOLEAN :
          IF listing # <<>> /\ reuse
          THEN /\ cached_files' \in Perms(Range(disk))
               /\ pc' = "bg_reuse"
          ELSE /\ cached_files' = listing
               /\ pc' = "bg_remote"
    /\ scan_i' = 1
    /\ attempt' = 0
    /\ tried_queries' = {}
    /\ searches' = 0
    /\ filter_log' = <<>>
    /\ bg_result' = None
    /\ UNCHANGED <<libVars, err, inputVars, ttsVars, audio_dir, narrationVars,
                   total_duration, envVars, mediaVars,
                   cacheVars, bg_path, layers>>

\* One iteration of "for f in cached_files[:3]".
ReuseCheck ==
    /\ pc = "bg_reuse"
    /\ LET f == cached_files[scan_i] IN
       \E r \in HasPeopleOutcomes(f, disk) :
          /\ filter_log' = Append(filter_log,
                                  [tier |-> "reuse", clip |-> f, people |-> r])
          /\ IF Accepts(r)
             THEN /\ bg_result' = f
                  /\ pc' = "bg_return"
                  /\ scan_i' = scan_i
             ELSE /\ bg_result' = bg_result
                  /\ IF scan_i < Min(REUSE_TRIES, Len(cached_files))
                     THEN /\ scan_i' = scan_i + 1
                          /\ pc' = pc
                     ELSE /\ scan_i' = 1
                          /\ pc' = "bg_remote"
    /\ UNCHANGED <<libVars, err, inputVars, ttsVars, audio_dir, narrationVars,
                   total_duration, envVars, mediaVars,
                   cacheVars, cached_files, attempt,
                   tried_queries, searches, bg_path, layers, stages>>

\* The candidate queries without the filter on tried_queries.
Available_Unfiltered(tried) == SEARCH_QUERIES

\* available = [q for q in SEARCH_QUERIES if q not in tried_queries]
Available(tried) == SEARCH_QUERIES \ tried

\* Where the remote loop goes after an iteration that did not return.
AfterAttempt(n) == IF n < MAX_ATTEMPTS THEN "bg_remote" ELSE "bg_scan"

\* One iteration of "for _ in range(3)": pick an untried query, search,
\* download, filter; accept (and prune the cache) or delete the clip.
RemoteAttempt ==
    /\ pc = "bg_remote"
    /\ attempt < MAX_ATTEMPTS
    /\ attempt' = attempt + 1
    /\ IF Available(tried_queries) = {}
       THEN /\ pc' = "bg_scan"
            /\ UNCHANGED <<tried_queries, searches, filter_log, bg_result,
                           cacheVars>>
       ELSE \E query \in Available(tried_queries),
               video_data \in SearchOutcomes :
          /\ tried_queries' = tried_queries \cup {query}
          /\ searches' = searches + 1
          /\ IF video_data = None
             THEN /\ pc' = AfterAttempt(attempt')
                  /\ UNCHANGED <<filter_log, bg_result, cacheVars>>
             ELSE \E dl \in DownloadOutcomes(video_data) :
                CASE dl \in {"none", "fail"} ->
                       /\ pc' = AfterAttempt(attempt')
                       /\ UNCHANGED <<filter_log, bg_result, cacheVars>>
                  [] dl = "fail_partial" ->
                       /\ disk' = Append(disk, video_data)
                       /\ partial' = partial \cup {video_data}
                       /\ pc' = AfterAttempt(attempt')
                       /\ UNCHANGED <<filter_log, bg_result>>
                  [] dl \in {"ok", "exists"} ->
                       LET written == IF dl = "ok"
                                        THEN Append(disk, video_data)
                                        ELSE disk
                       IN \E r \in HasPeopleOutcomes(video_data, written) :
                          /\ filter_log' =
                                Append(filter_log, [tier |-> "remote",
                                                    clip |-> video_data,
                                                    people |-> r])
                          /\ IF Accepts(r)
                             THEN /\ disk' = CleanupCache(written)
                                  /\ partial' = partial \cap Range(disk')
                                  /\ bg_result' = video_data
                                  /\ pc' = "bg_return"
                             ELSE /\ disk' = Remove(written, video_data)
                                  /\ partial' = partial \ {video_data}
                                  /\ bg_result' = bg_result
                                  /\ pc' = AfterAttempt(attempt')
    /\ UNCHANGED <<libVars, err, inputVars, ttsVars, audio_dir, narrationVars,
                   total_duration, envVars, mediaVars,
                   cached_files, scan_i, bg_path,
                   layers, stages>>

\* One iteration of the fallback "for f in cached_files".
ScanCheck ==
    /\ pc = "bg_scan"
    /\ scan_i <= Len(cached_files)
    /\ LET f == cached_files[scan_i] IN
       \E r \in HasPeopleOutcomes(f, disk) :
          /\ filter_log' = Append(filter_log,
                                  [tier |-> "scan", clip |-> f, people |-> r])
          /\ IF Accepts(r)
             THEN /\ bg_result' = f
                  /\ pc' = "bg_return"
                  /\ scan_i' = scan_i
             ELSE /\ bg_result' = bg_result
                  /\ scan_i' = scan_i + 1
                  /\ pc' = pc
    /\ UNCHANGED <<libVars, err, inputVars, ttsVars, audio_dir, narrationVars,
                   total_duration, envVars, mediaVars,
                   cacheVars, cached_files, attempt,
                   tried_queries, searches, bg_path, layers, stages>>

\* The fallback loop is over: return None.
ReturnNone ==
    /\ pc = "bg_scan"
    /\ scan_i > Len(cached_files)
    /\ bg_result' = None
    /\ pc' = "bg_return"
    /\ UNCHANGED <<libVars, err, inputVars, ttsVars, audio_dir, narrationVars,
                   total_duration, envVars, mediaVars,
                   cacheVars, cached_files, scan_i,
                   attempt, tried_queries, searches, filter_log, bg_path,
                   layers, stages>>

\* The static pool never consulted.
UsesStaticPool_Never(result) == FALSE

\* if bg_path is None: bg_path = pick_random_background()
UsesStaticPool(result) == result = None

\* get_dynamic_background returns: its locals go out of scope, and
\* generate_stoic_short takes the clip or, on None, turns to the static pool.
ReturnBackground ==
    /\ pc = "bg_return"
    /\ cached_files' = <<>>
    /\ scan_i' = 1
    /\ attempt' = 0
    /\ tried_queries' = {}
    /\ searches' = 0
    /\ filter_log' = <<>>
    /\ bg_result' = bg_result
    /\ IF caller = "generate_stoic_short"
       THEN IF UsesStaticPool(bg_result)
            THEN /\ pc' = "pick_static"
                 /\ bg_path' = bg_path
            ELSE /\ pc' = "grade"
                 /\ bg_path' = [src |-> "dynamic", clip |-> bg_result]
       ELSE /\ pc' = "done"
            /\ bg_path' = bg_path
    /\ UNCHANGED <<libVars, err, inputVars, ttsVars, audio_dir, narrationVars,
                   total_duration, envVars, mediaVars,
                   cacheVars, layers, stages>>

----------------------------------------------------------------------------
(* core/background.py *)

NoPath == [src |-> "none", clip |-> None]

\* pick_random_background(): FileNotFoundError when the pool holds no *.mp4,
\* else random.choice(videos), with no content filter.
PickRandomBackground ==
    /\ pc = "pick_static"
    /\ IF pool = {}
       THEN /\ err' = "FileNotFoundError"
            /\ pc' = "failed"
            /\ bg_path' = bg_path
       ELSE /\ \E v \in pool : bg_path' = [src |-> "static", clip |-> v]
            /\ pc' = "grade"
            /\ err' = err
    /\ UNCHANGED <<libVars, inputVars, ttsVars, audio_dir, narrationVars,
                   total_duration, envVars, mediaVars,
                   cacheVars, bgVars, layers, stages>>

\* Whether VideoFileClip(str(path)) can open the file: the outcomes the
\* decoder can give.  A file of the static pool is whatever the user put
\* there, a video or a damaged file; a whole download opens, a missing one
\* does not, and a truncated download opens or not, depending on where it
\* was cut.
Readable(path) ==
    IF path.src = "static" THEN {TRUE, FALSE}
    ELSE IF path.clip \notin Range(disk) THEN {FALSE}
    ELSE IF path.clip \in partial THEN {TRUE, FALSE}
    ELSE {TRUE}

\* What the zoom step does in one run: it is switched off (ENABLE_KEN_BURNS),
\* it works, apply_ken_burns_effect raises (clip.fl renders the frame at t = 0
\* when the effect is set up), or zoom_effect raises for a later frame, which
\* is rendered only when the video is exported.
KenBurnsModes == {"off", "works", "setup_fails", "frame_fails"}

\* if enable_ken_burns: try: apply_ken_burns_effect(...) except Exception:
\* keep the static graded clip.  The handler covers the call only, so a clip
\* whose later frames fail is returned as the animated clip.
KenBurnsResult(mode) ==
    IF mode \in {"works", "frame_fails"} THEN "animated" ELSE "static"

\* load_and_grade_background(path, total_duration, ...).
LoadAndGrade ==
    /\ pc = "grade"
    /\ stages' = Append(stages, "grading")
    /\ \E opens \in Readable(bg_path) :
          IF opens
          THEN /\ pc' = "overlays"
               /\ err' = err
               /\ handles' = handles \cup {"graded_bg"}
               /\ background' = KenBurnsResult(ken_burns)
          ELSE /\ pc' = "failed"
               /\ err' = "OSError"
               /\ handles' = handles
               /\ background' = background
    /\ UNCHANGED <<libVars, inputVars, ttsVars, audio_dir, narrationVars,
                   total_duration, envVars, video_file, audio_track,
                   cacheVars, bgVars, bg_path, layers>>

----------------------------------------------------------------------------
(* generate_stoic_short: time-synced overlays *)

HOOK_LINGER_MS == 1000
HOOK_LEAD_MS == 300
QUOTE_LINGER_MS == 1500
QUOTE_LEAD_MS == 200
QUOTE_FALLBACK_MS == 3000
AUTHOR_LINGER_MS == 1500
AUTHOR_LEAD_MS == 100
REFLECTION_LINGER_MS == 1500
REFLECTION_LEAD_MS == 300
CTA_GAP_MS == 500
CTA_MIN_MS == 1000

Layer(n, s, d) == [name |-> n, start |-> s, duration |-> d]

\* hook_visual_duration and hook_clip.set_start(max(0, hook_start - 0.3))
HookVisualDuration(t) == t.hook_end - t.hook_start + HOOK_LINGER_MS
HookClipStart(t) == Max(0, t.hook_start - HOOK_LEAD_MS)

\* The substitute taken when author_end is after quote_start.
LegalAuthorEnd_Inverted(t) ==
    IF t.author_end > t.quote_start
    THEN t.quote_start + QUOTE_FALLBACK_MS
    ELSE t.author_end

\* "Ensure legal duration": author_end is pushed when it is not after
\* quote_start.
LegalAuthorEnd(t) ==
    IF t.author_end <= t.quote_start
    THEN t.quote_start + QUOTE_FALLBACK_MS
    ELSE t.author_end

QuoteVisualDuration(t) == LegalAuthorEnd(t) - t.quote_start + QUOTE_LINGER_MS
\* The quote overlay started with the narration, without its lead.
QuoteClipStart_NoLead(t) == t.quote_start
QuoteClipStart(t) == t.quote_start - QUOTE_LEAD_MS
LineClipStart(t) == t.quote_start

AuthorVisualDuration(t) ==
    LegalAuthorEnd(t) - t.author_start + AUTHOR_LINGER_MS
AuthorClipStart(t) == t.author_start - AUTHOR_LEAD_MS

ReflectionVisualDuration(t) ==
    t.reflection_end - t.reflection_start + REFLECTION_LINGER_MS
ReflectionClipStart(t) == t.reflection_start - REFLECTION_LEAD_MS

\* cta_start = max(reflection_end + 0.5, total_duration - cta_duration)
CtaStart(t, total) ==
    Max(t.reflection_end + CTA_GAP_MS, total - CTA_DURATION_MS)
CtaVisualDuration(t, total) == total - CtaStart(t, total)
\* The call to action shown for any window that is not empty.
CtaShown_AnyWindow(t, total) == CtaVisualDuration(t, total) > 0
\* if cta_visual_duration > 1.0
CtaShown(t, total) == CtaVisualDuration(t, total) > CTA_MIN_MS

\* if reflection_text and reflection_visual_duration > 0
ReflectionShown(t, reflection) ==
    reflection /\ ReflectionVisualDuration(t) > 0

\* The layers list after Step 3, in the order of the appends.
BuildLayers(t, hook, reflection, total) ==
    << Layer("background", 0, total) >>
    \o (IF hook /\ HookVisualDuration(t) > 0
          THEN << Layer("hook", HookClipStart(t), HookVisualDuration(t)) >>
          ELSE << >>)
    \o << Layer("quote", QuoteClipStart(t), QuoteVisualDuration(t)),
          Layer("line", LineClipStart(t), QuoteVisualDuration(t)) >>
    \o (IF AuthorVisualDuration(t) > 0
          THEN << Layer("author", AuthorClipStart(t),
                        AuthorVisualDuration(t)) >>
          ELSE << >>)
    \o (IF ReflectionShown(t, reflection)
          THEN << Layer("reflection", ReflectionClipStart(t),
                        ReflectionVisualDuration(t)) >>
          ELSE << >>)
    \o (IF CtaShown(t, total)
          THEN << Layer("cta", CtaStart(t, total),
                        CtaVisualDuration(t, total)) >>
          ELSE << >>)
    \o << Layer("branding", 0, total) >>

\* Step 3: create the time-synced text overlays.
BuildOverlays ==
    /\ pc = "overlays"
    /\ stages' = Append(stages, "compositing")
    /\ layers' = BuildLayers(timing, hook_text, reflection_text,
                             total_duration)
    /\ pc' = "audio_track"
    /\ UNCHANGED <<libVars, err, inputVars, ttsVars, audio_dir, narrationVars,
                   total_duration, envVars, mediaVars,
                   cacheVars, bgVars, bg_path>>

\* The temporary mixed-audio file of AUDIO_DIR.
MixedAudio == "quote_mixed"

\* What the ambient bed does in one run: get_ambient_sound() finds no file,
\* the bed is mixed in, building the bed raises (loading, looping, trimming,
\* attenuating or combining it), or the bed builds and raises only when its
\* samples are read, which is when write_audiofile writes the mix.
AmbientModes == {"none", "mixes", "build_fails", "write_fails"}

\* final_audio after the try/except of step 4: the narration with the bed
\* under it, or tts_audio alone when no bed exists or building it raised.
\* The audio clips are lazy, so a bed that fails when read is still mixed in.
FinalAudio(mode) ==
    IF mode \in {"mixes", "write_fails"} THEN "mix" ELSE "narration"

\* Step 4: open the narration, mix it with the ambient sound (a failure of
\* the mixing is caught) and write final_audio to the temp file, outside the
\* try/except; the write can fail and leave the file half-written.
BuildAudioTrack ==
    /\ pc = "audio_track"
    /\ handles' = handles \cup {"tts_audio"}
    /\ audio_track' = FinalAudio(ambient)
    /\ \/ /\ ~(audio_track' = "mix" /\ ambient = "write_fails")
          /\ audio_dir' = audio_dir \cup {MixedAudio}
          /\ pc' = "composite"
          /\ err' = err
       \/ /\ \E left \in BOOLEAN :
                audio_dir' = IF left THEN audio_dir \cup {MixedAudio}
                             ELSE audio_dir
          /\ pc' = "failed"
          /\ err' = IF audio_track' = "mix" /\ ambient = "write_fails"
                    THEN "ambient error" ELSE "OSError"
    /\ UNCHANGED <<libVars, inputVars, ttsVars, narrationVars, total_duration,
                   envVars, video_file, background, cacheVars, bgVars,
                   bg_path, layers, stages>>

\* Step 5: composite the layers, attach the mixed audio and export with
\* write_videofile, which writes output_path in place; a failed export
\* leaves no file or a truncated one.
Composite ==
    /\ pc = "composite"
    /\ handles' = handles \cup {"final_video", "mixed_audio_clip"}
    /\ \/ /\ ~(background = "animated" /\ ken_burns = "frame_fails")
          /\ video_file' = "complete"
          /\ pc' = "cleanup"
          /\ err' = err
       \/ /\ video_file' \in {video_file, "partial"}
          /\ pc' = "failed"
          /\ err' = IF background = "animated" /\ ken_burns = "frame_fails"
                    THEN "zoom_effect error" ELSE "OSError"
    /\ UNCHANGED <<libVars, inputVars, ttsVars, audio_dir, narrationVars,
                   total_duration, envVars, background, audio_track,
                   cacheVars, bgVars, bg_path, layers, stages>>

\* The order of the close() calls of the cleanup block.
CloseOrder == <<"tts_audio", "mixed_audio_clip", "final_video", "graded_bg">>

\* The handles closed when the statement number `raising` of the cleanup
\* block raises: the ones before it.
ClosedBefore(raising) ==
    {CloseOrder[i] : i \in 1..(IF raising <= Len(CloseOrder)
                                THEN raising - 1 ELSE Len(CloseOrder))}

\* Cleanup: try: close the four handles, unlink the temp mixed audio;
\* except Exception: pass; then return the result dict.  Statement number
\* `raising` of the block raises (one of the closes, or the unlink that
\* follows them), or none does (Len(CloseOrder) + 2): what comes after the
\* raising statement is skipped and the function returns normally.
Cleanup ==
    /\ pc = "cleanup"
    /\ \E raising \in 1..(Len(CloseOrder) + 2) :
          /\ handles' = handles \ ClosedBefore(raising)
          /\ audio_dir' = IF raising = Len(CloseOrder) + 2
                          THEN audio_dir \ {MixedAudio} ELSE audio_dir
    /\ pc' = "done"
    /\ UNCHANGED <<libVars, err, inputVars, ttsVars, narrationVars, total_duration,
                   envVars, video_file, background, audio_track, cacheVars,
                   bgVars, bg_path, layers, stages>>

----------------------------------------------------------------------------
(* core/audio_processor.py: cleanup_audio_files *)

\* directory.glob("_tts_*")
TtsGlob(dir) == dir \cap TransientFiles

\* cleanup_audio_files(): unlink every "_tts_*" file of AUDIO_DIR, passing
\* over the ones whose unlink raises, and return the number deleted.
CleanupAudioFiles ==
    /\ pc = "audio_cleanup"
    /\ \E kept \in SUBSET TtsGlob(audio_dir) :
          /\ audio_dir' = audio_dir \ (TtsGlob(audio_dir) \ kept)
          /\ cleaned' = Cardinality(TtsGlob(audio_dir) \ kept)
    /\ UNCHANGED <<pc, err, inputVars, ttsVars, narrationVars,
                   total_duration, envVars, mediaVars, cacheVars, bgVars,
                   bg_path, layers, stages, textVars, fontVars, zoomVars,
                   schedVars, cmdVars>>

----------------------------------------------------------------------------
(* core/person_detector.py: has_people *)

\* if weight > 0.3, in tenths.
DETECTION_THRESHOLD == 3

\* What the detector gives for one frame: the weights of its detections, or
\* an exception.
Weights == (DETECTION_THRESHOLD - 1)..MaxWeight
FrameResults ==
    [raises : {FALSE}, weights : SUBSET Weights]
    \cup {[raises |-> TRUE, weights |-> {}]}

\* A frame counted as a detection at the threshold itself.
DetectsPeopleInFrame_AtThreshold(frame) ==
    \E w \in frame.weights : w >= DETECTION_THRESHOLD

\* _detect_people_in_frame(frame): some detection weighs more than 0.3.
DetectsPeopleInFrame(frame) ==
    \E w \in frame.weights : w > DETECTION_THRESHOLD

\* for frame in frames: return True at the first detection; an exception
\* leaves the loop and has_people returns False; else False.
RECURSIVE ScanFrames(_)
ScanFrames(frames) ==
    IF frames = <<>> THEN FALSE
    ELSE IF Head(frames).raises THEN FALSE
    ELSE IF DetectsPeopleInFrame(Head(frames)) THEN TRUE
    ELSE ScanFrames(Tail(frames))

\* has_people(video_path) of person_detector, and the stand-in stock_footage
\* defines when the module cannot be imported.
HasPeople(d) ==
    IF ~d.importable THEN FALSE
    ELSE IF ~d.available THEN FALSE
    ELSE IF ~d.extracts THEN FALSE
    ELSE ScanFrames(d.frames)

\* The frame sequences _extract_frames can hand over.
FrameSeqs == UNION {[1..n -> FrameResults] : n \in 0..MaxFrames}

Detectors ==
    [importable : BOOLEAN, available : BOOLEAN, extracts : BOOLEAN,
     frames : FrameSeqs]

NoDetector ==
    [importable |-> TRUE, available |-> TRUE, extracts |-> TRUE,
     frames |-> <<>>]

\* One call of has_people(path).
CallHasPeople ==
    /\ pc = "detect"
    /\ verdict' = IF HasPeople(detector) THEN "people" ELSE "no people"
    /\ pc' = "done"
    /\ UNCHANGED <<libVars, err, inputVars, ttsVars, audio_dir, narrationVars,
                   total_duration, api_key, people, pool, detector,
                   ken_burns, ambient, mediaVars, cacheVars, bgVars, bg_path, layers, stages>>

----------------------------------------------------------------------------
(* core/text_renderer.py: PILTextRenderer.render_text *)

\* stroke_width: int = 3
DEFAULT_STROKE_WIDTH == 3

\* The arguments of a call.  Font, size, color, words per line and alignment
\* are the same in every call of the model; the text and the glow flag vary
\* among the arguments the cache key holds, the stroke width among those it
\* does not hold.
Texts == 1..MaxTexts
StrokeWidths == DEFAULT_STROKE_WIDTH..(DEFAULT_STROKE_WIDTH + MaxStrokeExtra)
RenderArgs ==
    [text : Texts, enable_glow : BOOLEAN, stroke_width : StrokeWidths]

NoArgs == [text |-> None, enable_glow |-> FALSE, stroke_width |-> None]
NoRaster == [text |-> None, glow |-> FALSE, stroke |-> None]

\* The image drawn from scratch: the wrapped text with its shadow, drawn with
\* a stroke of stroke_width, with the glow added when enable_glow is set.
DrawText(args) ==
    [text |-> args.text, glow |-> args.enable_glow,
     stroke |-> args.stroke_width]

\* cache_key = (text, font_path, font_size, color, words_per_line, align,
\* enable_glow)
CacheKey(args) == <<args.text, args.enable_glow>>

\* render_text(...): the cached image's copy when the key is cached, else
\* the drawn image, which is cached.
RenderText ==
    /\ pc = "render"
    /\ \E args \in RenderArgs :
          /\ render_args' = args
          /\ IF \E e \in text_cache : e.key = CacheKey(args)
             THEN /\ raster' = (CHOOSE e \in text_cache :
                                   e.key = CacheKey(args)).image
                  /\ text_cache' = text_cache
             ELSE /\ raster' = DrawText(args)
                  /\ text_cache' = text_cache \cup
                        {[key |-> CacheKey(args), image |-> DrawText(args)]}
    /\ UNCHANGED <<pipelineVars, cleaned, fontVars, zoomVars, schedVars, cmdVars>>

\* clear_cache(): self._cache.clear().
ClearCache ==
    /\ pc = "render"
    /\ text_cache' = {}
    /\ UNCHANGED <<pipelineVars, cleaned, render_args, raster, fontVars, zoomVars,
                   schedVars, cmdVars>>

----------------------------------------------------------------------------
(* core/text_renderer.py: get_font_settings *)

\* FONT_SIZE_CONFIG, in the order of the dict.
FONT_SIZE_CONFIG ==
    << [tier |-> "short", max_words |-> 12, font_size |-> 72,
        words_per_line |-> 4],
       [tier |-> "medium", max_words |-> 25, font_size |-> 58,
        words_per_line |-> 5],
       [tier |-> "long", max_words |-> 45, font_size |-> 48,
        words_per_line |-> 6],
       [tier |-> "extra", max_words |-> 999, font_size |-> 40,
        words_per_line |-> 7] >>

NoSettings == [font_size |-> None, words_per_line |-> None]

FontOf(cfg) ==
    [font_size |-> cfg.font_size, words_per_line |-> cfg.words_per_line]

\* The tiers with their upper bounds exclusive.
FontSettingsFrom_Exclusive(n, i) ==
    LET first == {j \in i..Len(FONT_SIZE_CONFIG) :
                     n < FONT_SIZE_CONFIG[j].max_words}
    IN  IF first = {}
        THEN FontOf(FONT_SIZE_CONFIG[Len(FONT_SIZE_CONFIG)])
        ELSE FontOf(FONT_SIZE_CONFIG[CHOOSE j \in first :
                                        \A k \in first : j <= k])

\* for tier_name, cfg in FONT_SIZE_CONFIG.items(): the first tier from the
\* i-th on with word_count <= cfg["max_words"], else the last tier.
FontSettingsFrom(n, i) ==
    LET first == {j \in i..Len(FONT_SIZE_CONFIG) :
                     n <= FONT_SIZE_CONFIG[j].max_words}
    IN  IF first = {}
        THEN FontOf(FONT_SIZE_CONFIG[Len(FONT_SIZE_CONFIG)])
        ELSE FontOf(FONT_SIZE_CONFIG[CHOOSE j \in first :
                                        \A k \in first : j <= k])

\* get_font_settings(word_count), with word_count = len(text.split()).
GetFontSettings ==
    /\ pc = "font"
    /\ \E n \in 0..MaxWords :
          /\ word_count' = n
          /\ font_settings' = FontSettingsFrom(n, 1)
    /\ UNCHANGED <<pipelineVars, cleaned, textVars, zoomVars, schedVars, cmdVars>>

----------------------------------------------------------------------------
(* core/background.py: apply_ken_burns_effect *)

VIDEO_WIDTH == 1080
VIDEO_HEIGHT == 1920

\* Zoom ratios in hundredths: 1.0 = no zoom, and zoom_ratio: float = 1.08.
NO_ZOOM == 100
DEFAULT_ZOOM_RATIO == 108

ZoomRatios == NO_ZOOM..(DEFAULT_ZOOM_RATIO + MaxZoomExtra)

\* The clips zoomed: w, h = clip.size, duration = clip.duration.  under
\* holds the (axis, t) for which the float quotient side / current_zoom of
\* this clip comes out just under a whole number when it is one exactly.
ZoomClips ==
    UNION {[w : {VIDEO_WIDTH}, h : {VIDEO_HEIGHT}, zoom_ratio : ZoomRatios,
            duration : {d}, under : SUBSET ({"w", "h"} \X (1..d))] :
           d \in 1..MaxDuration}

NoClip ==
    [w |-> None, h |-> None, zoom_ratio |-> None, duration |-> None,
     under |-> {}]
NoCrop == [x1 |-> None, y1 |-> None, x2 |-> None, y2 |-> None]

\* int(side / current_zoom) with progress = t / duration and current_zoom =
\* 1 + (zoom_ratio - 1) * progress, in floating point.  The quotient is
\* side * 100 * duration / (100 * duration + (zoom_ratio - 100) * t); int()
\* truncates it.  Where it is a whole number q and the divisor went through
\* inexact float operations, the float quotient is q or just under q, and
\* int() gives q or q - 1 (1080 / (1 + (1.08 - 1) * 1.0) gives 999).
CropSide(clip, axis, t) ==
    LET side == IF axis = "w" THEN clip.w ELSE clip.h
        num == side * NO_ZOOM * clip.duration
        den == NO_ZOOM * clip.duration + (clip.zoom_ratio - NO_ZOOM) * t
        q == num \div den
    IN  IF /\ num % den = 0
           /\ clip.zoom_ratio > NO_ZOOM
           /\ <<axis, t>> \in clip.under
        THEN q - 1
        ELSE q

\* x1 = (w - new_w) // 2, y1 = (h - new_h) // 2, x2 = x1 + new_w,
\* y2 = y1 + new_h.
CropBox(w, h, new_w, new_h) ==
    [x1 |-> (w - new_w) \div 2, y1 |-> (h - new_h) \div 2,
     x2 |-> (w - new_w) \div 2 + new_w, y2 |-> (h - new_h) \div 2 + new_h]

\* zoom_effect(get_frame, t) for a frame of the clip.
ZoomEffect ==
    /\ pc = "zoom"
    /\ \E t \in 0..zoom_clip.duration :
          /\ frame_t' = t
          /\ crop' = CropBox(zoom_clip.w, zoom_clip.h,
                             CropSide(zoom_clip, "w", t),
                             CropSide(zoom_clip, "h", t))
          /\ prev_t' = frame_t
          /\ prev_crop' = crop
    /\ UNCHANGED <<pipelineVars, cleaned, textVars, fontVars, zoom_clip, schedVars,
                   cmdVars>>

----------------------------------------------------------------------------
(* core/quote_scheduler.py *)

\* session.query(QuoteProgress).first() is None.
NoRow == -1

\* progress.current_index if progress else 0
Position(p) == IF p = NoRow THEN 0 ELSE p

\* get_next_quote, sequential mode: the index of the quote served, wrapped
\* to 0 when the stored index is at or past the end.
QuoteIndex(p, n) == IF Position(p) >= n THEN 0 ELSE Position(p)

\* get_next_quote, sequential mode: a missing row is created at 0.
RowAfterNextQuote(p) == IF p = NoRow THEN 0 ELSE p

\* advance_progress(): the row's index plus one, wrapped to 0 at the end; a
\* missing row is created at 1.
Advanced(p, n) ==
    IF p = NoRow THEN 1
    ELSE IF p + 1 >= n THEN 0
    ELSE p + 1

\* set_position: if index < 0 or index >= total: raise QuoteSchedulerError
ValidPosition(i, n) == ~(i < 0 \/ i >= n)

NoCall == [op |-> "none", arg |-> -1, before |-> NoRow, raised |-> FALSE]

\* get_next_quote, sequential mode: raw_quote = get_quote_by_index(index)
\* is not None; it is None for every index of an empty database.
QuoteFound(i, n) == i >= 0 /\ i < n

\* get_next_quote with a filter: get_random_quote gives one of the matching
\* quotes, or raises ValueError when none matches (NoQuote).
NoQuote == -1
FilteredOutcomes(n) == (0..(n - 1)) \cup {NoQuote}

\* get_next_quote(philosopher, category) called directly; with a filter it
\* picks a random matching quote and touches no row, and raises when no
\* quote matches; without one it creates a missing row and then raises
\* when the database has no quote at the index.
GetNextQuote ==
    /\ pc = "sched"
    /\ \/ /\ progress' = progress
          /\ \E q \in FilteredOutcomes(total_quotes) :
                sched_call' =
                   [op |-> "get_next_quote", arg |-> -1,
                    before |-> progress, raised |-> (q = NoQuote)]
       \/ /\ progress' = RowAfterNextQuote(progress)
          /\ sched_call' =
                [op |-> "get_next_quote",
                 arg |-> QuoteIndex(progress, total_quotes),
                 before |-> progress,
                 raised |-> ~QuoteFound(QuoteIndex(progress, total_quotes),
                                        total_quotes)]
    /\ UNCHANGED <<pipelineVars, cleaned, textVars, fontVars, zoomVars, total_quotes,
                   cmdVars>>

\* advance_progress() called directly.
AdvanceProgress ==
    /\ pc = "sched"
    /\ progress' = Advanced(progress, total_quotes)
    /\ sched_call' = [op |-> "advance_progress", arg |-> -1,
                      before |-> progress, raised |-> FALSE]
    /\ UNCHANGED <<pipelineVars, cleaned, textVars, fontVars, zoomVars, total_quotes,
                   cmdVars>>

\* set_position(index) called directly.
SetPosition ==
    /\ pc = "sched"
    /\ \E index \in -1..total_quotes :
          /\ progress' = IF ValidPosition(index, total_quotes) THEN index
                         ELSE progress
          /\ sched_call' =
                [op |-> "set_position", arg |-> index, before |-> progress,
                 raised |-> ~ValidPosition(index, total_quotes)]
    /\ UNCHANGED <<pipelineVars, cleaned, textVars, fontVars, zoomVars, total_quotes,
                   cmdVars>>

----------------------------------------------------------------------------
(* main.py: cmd_generate, cmd_auto, cmd_batch *)

\* The commands: generate (with or without a philosopher or category
\* filter), auto, and batch of count videos, with or without --upload.
Commands ==
    [name : {"generate", "auto", "batch"}, upload : BOOLEAN,
     filtered : BOOLEAN, count : 1..MaxBatch]

NoCmd == [name |-> "none", upload |-> FALSE, filtered |-> FALSE, count |-> None]

\* cmd_batch: if getattr(args, "upload", False): cmd_auto(args)
UsesAuto(c) == c.name = "auto" \/ (c.name = "batch" /\ c.upload)

\* cmd_auto calls get_next_quote() with no filter; cmd_generate advances
\* only "if not philosopher and not category".
Sequential(c) == UsesAuto(c) \/ ~c.filtered

\* The videos the command makes.
Videos(c) == IF c.name = "batch" THEN c.count ELSE 1

\* The command going on to record the video whether or not
\* generate_stoic_short returned.
AfterGenerate_RecordsAnyway(returned, in_batch) == "cmd_record"

\* result = generate_stoic_short(quote_data): when it raises, cmd_generate
\* and cmd_auto raise too, and cmd_batch logs the failure and continues
\* with the next video.
AfterGenerate(returned, in_batch) ==
    IF returned THEN "cmd_record"
    ELSE IF in_batch THEN "cmd_next"
    ELSE "cmd_raised"

\* quote_data = get_next_quote(...): when it raises, generate_stoic_short
\* is not called; cmd_generate and cmd_auto raise too, and cmd_batch logs
\* the failure and continues with the next video.
AfterNextQuote(found, in_batch) ==
    IF found THEN "cmd_generate"
    ELSE IF in_batch THEN "cmd_next"
    ELSE "cmd_raised"

\* quote_data = get_next_quote(...) at the start of a video.
CmdNextQuote ==
    /\ pc = "cmd_quote"
    /\ snapshot' = [history |-> Len(history),
                    position |-> Position(progress)]
    /\ gen_result' = "none"
    /\ IF Sequential(cmd)
       THEN /\ quote' = IF QuoteFound(QuoteIndex(progress, total_quotes),
                                      total_quotes)
                        THEN QuoteIndex(progress, total_quotes)
                        ELSE NoQuote
            /\ progress' = RowAfterNextQuote(progress)
       ELSE /\ \E q \in FilteredOutcomes(total_quotes) : quote' = q
            /\ progress' = progress
    /\ pc' = AfterNextQuote(quote' # NoQuote, cmd.name = "batch")
    /\ UNCHANGED <<runVars, cleaned, textVars, fontVars, zoomVars, total_quotes,
                   sched_call, history, cmd, batch_i>>

\* result = generate_stoic_short(quote_data), which returns or raises.
CmdGenerate ==
    /\ pc = "cmd_generate"
    /\ \E returned \in BOOLEAN :
          /\ gen_result' = IF returned THEN "returned" ELSE "raised"
          /\ pc' = AfterGenerate(returned, cmd.name = "batch")
    /\ UNCHANGED <<runVars, cleaned, textVars, fontVars, zoomVars, schedVars,
                   history, cmd, batch_i, quote, snapshot>>

\* record_quote_history(...), then advance_progress() in sequential mode.
CmdRecord ==
    /\ pc = "cmd_record"
    /\ history' = Append(history, [quote |-> quote, status |-> "generated"])
    /\ progress' = IF Sequential(cmd)
                   THEN Advanced(progress, total_quotes)
                   ELSE progress
    /\ pc' = IF UsesAuto(cmd) THEN "cmd_upload" ELSE "cmd_next"
    /\ UNCHANGED <<runVars, cleaned, textVars, fontVars, zoomVars, total_quotes,
                   sched_call, cmd, batch_i, quote, gen_result, snapshot>>

\* cmd_auto: the upload gives a video id (the record becomes "uploaded"),
\* gives none, or raises.
CmdUpload ==
    /\ pc = "cmd_upload"
    /\ \E outcome \in {"uploaded", "no id", "raised"} :
          /\ history' =
                IF outcome = "uploaded"
                THEN [history EXCEPT ![Len(history)].status = "uploaded"]
                ELSE history
          /\ pc' = IF outcome = "raised" /\ cmd.name # "batch"
                   THEN "cmd_raised"
                   ELSE "cmd_next"
    /\ UNCHANGED <<runVars, cleaned, textVars, fontVars, zoomVars, schedVars,
                   cmd, batch_i, quote, gen_result, snapshot>>

\* for i in range(count): the next video, or the end of the command.
CmdNext ==
    /\ pc = "cmd_next"
    /\ IF batch_i < Videos(cmd)
       THEN /\ batch_i' = batch_i + 1
            /\ pc' = "cmd_quote"
       ELSE /\ batch_i' = batch_i
            /\ pc' = "cmd_done"
    /\ UNCHANGED <<runVars, cleaned, textVars, fontVars, zoomVars, schedVars,
                   history, cmd, quote, gen_result, snapshot>>

----------------------------------------------------------------------------
(* Specifications *)

\* No library call has been made.
AudioIdle == cleaned = -1

TextIdle ==
    /\ text_cache = {}
    /\ render_args = NoArgs
    /\ raster = NoRaster

FontIdle ==
    /\ word_count = -1
    /\ font_settings = NoSettings

ZoomIdle ==
    /\ frame_t = -1
    /\ crop = NoCrop
    /\ prev_t = -1
    /\ prev_crop = NoCrop

SchedIdle ==
    /\ total_quotes = None
    /\ progress = NoRow
    /\ sched_call = NoCall

CmdIdle ==
    /\ history = <<>>
    /\ cmd = NoCmd
    /\ batch_i = 0
    /\ quote = -1
    /\ gen_result = "none"
    /\ snapshot = [history |-> 0, position |-> 0]

LibIdle ==
    /\ AudioIdle
    /\ TextIdle
    /\ FontIdle
    /\ ZoomIdle
    /\ zoom_clip = NoClip
    /\ SchedIdle
    /\ CmdIdle

\* The download cache a run can find: any files, in any mtime order, some of
\* them cut short by an earlier failed download.
DiskStates == UNION {Perms(S) : S \in SUBSET Clips}

InitCommon ==
    /\ LibIdle
    /\ err = "none"
    /\ hook_audio = -1
    /\ quote_audio = -1
    /\ author_audio = -1
    /\ reflection_audio = -1
    /\ temp_files = <<>>
    /\ audio_dir = {}
    /\ timing = NoTiming
    /\ audio_duration = -1
    /\ total_duration = -1
    /\ cached_files = <<>>
    /\ scan_i = 1
    /\ attempt = 0
    /\ tried_queries = {}
    /\ searches = 0
    /\ filter_log = <<>>
    /\ bg_result = None
    /\ bg_path = NoPath
    /\ layers = <<>>
    /\ handles = {}
    /\ video_file = "absent"
    /\ background = "none"
    /\ audio_track = "none"
    /\ stages = <<>>
    /\ verdict = "unset"

\* One run of generate_stoic_short(quote_data) in any environment: with or
\* without an API key, with a detector that flags no clip or every clip, any
\* static pool, a download cache that is empty or holds a clip (whole or cut
\* short), and every behaviour of the zoom step and of the ambient bed.
Init ==
    /\ InitCommon
    /\ detector = NoDetector
    /\ pc = "start"
    /\ caller = "generate_stoic_short"
    /\ hook_text \in BOOLEAN
    /\ reflection_text \in BOOLEAN
    /\ api_key \in BOOLEAN
    /\ people \in {{}, Clips}
    /\ pool \in {1..n : n \in 0..MaxStatic}
    /\ disk \in {<<>>, <<1>>}
    /\ partial \in SUBSET Range(disk)
    /\ ken_burns \in KenBurnsModes
    /\ ambient \in AmbientModes

Next ==
    \/ StartNarration
    \/ GenerateHook
    \/ GenerateQuote
    \/ GenerateAuthor
    \/ GenerateReflection
    \/ ComposeAudio
    \/ ReturnFullAudio
    \/ ComputeDuration
    \/ BgStart
    \/ ReuseCheck
    \/ RemoteAttempt
    \/ ScanCheck
    \/ ReturnNone
    \/ ReturnBackground
    \/ PickRandomBackground
    \/ LoadAndGrade
    \/ BuildOverlays
    \/ BuildAudioTrack
    \/ Composite
    \/ Cleanup

Spec == Init /\ [][Next]_vars

\* The runs of generate_stoic_short in a working environment, where the
\* narration and its timing are what varies: the API key is set, the zoom
\* works, there is no ambient file, and the download cache is empty or
\* holds one whole clip that the filter accepts.
InitWorking ==
    /\ InitCommon
    /\ detector = NoDetector
    /\ pc = "start"
    /\ caller = "generate_stoic_short"
    /\ hook_text \in BOOLEAN
    /\ reflection_text \in BOOLEAN
    /\ api_key = TRUE
    /\ people \in {{}, Clips}
    /\ pool \in {1..n : n \in 0..MaxStatic}
    /\ disk \in IF people = {} THEN {<<>>, <<1>>} ELSE {<<>>}
    /\ partial = {}
    /\ ken_burns = "works"
    /\ ambient = "none"

SpecWorking == InitWorking /\ [][Next]_vars

\* Steps 2 to 6 of generate_stoic_short, from the point where a narration of
\* four segments of FrameUnit frames is on disk, with everything the
\* acquisition of the background depends on left open: any download cache
\* (files whole or cut short, in any order), any detector, with or without
\* an API key, any static pool.  The zoom works and there is no ambient
\* file (InitRender has the other behaviours of these two).
InitFallback ==
    /\ LibIdle
    /\ err = "none"
    /\ hook_audio = -1
    /\ quote_audio = -1
    /\ author_audio = -1
    /\ reflection_audio = -1
    /\ temp_files = <<>>
    /\ audio_dir = {FinalNarration}
    /\ hook_text = TRUE
    /\ reflection_text = TRUE
    /\ timing = BuildTiming(FrameUnit, FrameUnit, FrameUnit, FrameUnit)
    /\ audio_duration = timing.total_duration
    /\ total_duration = TotalDuration(audio_duration)
    /\ pc = "bg_start"
    /\ caller = "generate_stoic_short"
    /\ api_key \in BOOLEAN
    /\ people \in SUBSET Clips
    /\ pool \in {1..n : n \in 0..MaxStatic}
    /\ disk \in DiskStates
    /\ partial \in SUBSET Range(disk)
    /\ cached_files = <<>>
    /\ scan_i = 1
    /\ attempt = 0
    /\ tried_queries = {}
    /\ searches = 0
    /\ filter_log = <<>>
    /\ bg_result = None
    /\ bg_path = NoPath
    /\ layers = <<>>
    /\ handles = {}
    /\ video_file = "absent"
    /\ background = "none"
    /\ audio_track = "none"
    /\ ken_burns = "works"
    /\ ambient = "none"
    /\ stages = <<"narration">>
    /\ detector = NoDetector
    /\ verdict = "unset"

NextFallback ==
    \/ BgStart
    \/ ReuseCheck
    \/ RemoteAttempt
    \/ ScanCheck
    \/ ReturnNone
    \/ ReturnBackground
    \/ PickRandomBackground
    \/ LoadAndGrade
    \/ BuildOverlays
    \/ BuildAudioTrack
    \/ Composite
    \/ Cleanup

SpecFallback == InitFallback /\ [][NextFallback]_vars

\* One bare call of get_dynamic_background().
InitBg ==
    /\ InitCommon
    /\ detector = NoDetector
    /\ pc = "bg_start"
    /\ caller = "direct"
    /\ hook_text = FALSE
    /\ reflection_text = FALSE
    /\ api_key \in BOOLEAN
    /\ people \in SUBSET Clips
    /\ pool = {}
    /\ disk \in DiskStates
    /\ partial \in SUBSET Range(disk)
    /\ ken_burns = "works"
    /\ ambient = "none"

NextBg ==
    \/ BgStart
    \/ ReuseCheck
    \/ RemoteAttempt
    \/ ScanCheck
    \/ ReturnNone
    \/ ReturnBackground

SpecBg == InitBg /\ [][NextBg]_vars

\* Cache files that are not among the videos the provider returns now, as
\* n file names and as the listing of them, oldest mtime first.
FillerSet(n) == {MaxClips + i : i \in 1..n}
Fillers(n) == [i \in 1..n |-> MaxClips + i]

\* One call of get_dynamic_background() on a cache about as large as
\* cleanup_cache allows, taken after the directory listing (no reuse draw):
\* the clips the provider knows are the oldest files of the cache.
InitCache ==
    /\ LibIdle
    /\ err = "none"
    /\ hook_audio = -1
    /\ quote_audio = -1
    /\ author_audio = -1
    /\ reflection_audio = -1
    /\ temp_files = <<>>
    /\ audio_dir = {}
    /\ timing = NoTiming
    /\ audio_duration = -1
    /\ total_duration = -1
    /\ pc = "bg_remote"
    /\ caller = "direct"
    /\ hook_text = FALSE
    /\ reflection_text = FALSE
    /\ api_key = TRUE
    /\ pool = {}
    /\ \E n \in (MAX_CACHE_FILES - 1)..(MAX_CACHE_FILES - 1 + MaxExtra) :
          /\ disk \in {old \o Fillers(n) : old \in DiskStates}
          /\ people \in {P \cup F : P \in SUBSET Clips,
                                    F \in {{}, FillerSet(n)}}
    /\ partial = {}
    /\ cached_files = disk
    /\ scan_i = 1
    /\ attempt = 0
    /\ tried_queries = {}
    /\ searches = 0
    /\ filter_log = <<>>
    /\ bg_result = None
    /\ bg_path = NoPath
    /\ layers = <<>>
    /\ handles = {}
    /\ video_file = "absent"
    /\ background = "none"
    /\ audio_track = "none"
    /\ ken_burns = "works"
    /\ ambient = "none"
    /\ stages = <<"acquisition">>
    /\ detector = NoDetector
    /\ verdict = "unset"

NextCache ==
    \/ RemoteAttempt
    \/ ScanCheck
    \/ ReturnNone
    \/ ReturnBackground

SpecCache == InitCache /\ [][NextCache]_vars

\* One call of has_people on a video, for every state of the detection
\* backend and every outcome of its frames.
InitDetect ==
    /\ InitCommon
    /\ pc = "detect"
    /\ caller = "direct"
    /\ hook_text = FALSE
    /\ reflection_text = FALSE
    /\ api_key = FALSE
    /\ people = {}
    /\ pool = {}
    /\ disk = <<>>
    /\ partial = {}
    /\ ken_burns = "works"
    /\ ambient = "none"
    /\ detector \in Detectors

NextDetect == CallHasPeople

SpecDetect == InitDetect /\ [][NextDetect]_vars

\* Steps 3 to 5 of generate_stoic_short, from the point where the narration
\* is on disk and pick_random_background() has chosen a clip of the static
\* pool, with every behaviour of the zoom step and of the ambient bed.
InitRender ==
    /\ LibIdle
    /\ err = "none"
    /\ hook_audio = -1
    /\ quote_audio = -1
    /\ author_audio = -1
    /\ reflection_audio = -1
    /\ temp_files = <<>>
    /\ audio_dir = {"quote_tts"}
    /\ hook_text \in BOOLEAN
    /\ reflection_text \in BOOLEAN
    /\ \E h \in FramesFor(hook_text), q \in FramesFor(TRUE),
          a \in FramesFor(TRUE), r \in FramesFor(reflection_text) :
          timing = BuildTiming(h, q, a, r)
    /\ audio_duration = timing.total_duration
    /\ total_duration = TotalDuration(audio_duration)
    /\ pc = "grade"
    /\ caller = "generate_stoic_short"
    /\ api_key = TRUE
    /\ people = {}
    /\ pool = {1}
    /\ disk = <<>>
    /\ partial = {}
    /\ cached_files = <<>>
    /\ scan_i = 1
    /\ attempt = 0
    /\ tried_queries = {}
    /\ searches = 0
    /\ filter_log = <<>>
    /\ bg_result = None
    /\ bg_path = [src |-> "static", clip |-> 1]
    /\ layers = <<>>
    /\ handles = {}
    /\ video_file = "absent"
    /\ background = "none"
    /\ audio_track = "none"
    /\ ken_burns \in KenBurnsModes
    /\ ambient \in AmbientModes
    /\ stages = <<"narration", "acquisition">>
    /\ detector = NoDetector
    /\ verdict = "unset"

NextRender ==
    \/ LoadAndGrade
    \/ BuildOverlays
    \/ BuildAudioTrack
    \/ Composite
    \/ Cleanup

SpecRender == InitRender /\ [][NextRender]_vars

\* The state of the pipeline while only library functions are called.
PipelineRest(at) ==
    /\ pc = at
    /\ err = "none"
    /\ hook_audio = -1
    /\ quote_audio = -1
    /\ author_audio = -1
    /\ reflection_audio = -1
    /\ temp_files = <<>>
    /\ timing = NoTiming
    /\ audio_duration = -1
    /\ total_duration = -1
    /\ cached_files = <<>>
    /\ scan_i = 1
    /\ attempt = 0
    /\ tried_queries = {}
    /\ searches = 0
    /\ filter_log = <<>>
    /\ bg_result = None
    /\ bg_path = NoPath
    /\ layers = <<>>
    /\ handles = {}
    /\ video_file = "absent"
    /\ background = "none"
    /\ audio_track = "none"
    /\ stages = <<>>
    /\ verdict = "unset"
    /\ caller = "direct"
    /\ hook_text = FALSE
    /\ reflection_text = FALSE
    /\ api_key = FALSE
    /\ people = {}
    /\ pool = {}
    /\ disk = <<>>
    /\ partial = {}
    /\ ken_burns = "works"
    /\ ambient = "none"
    /\ detector = NoDetector

PipelineIdle(at) ==
    /\ PipelineRest(at)
    /\ audio_dir = {}

\* Calls of render_text on the module-level renderer, whose cache is empty
\* after construction.
InitText ==
    /\ PipelineIdle("render")
    /\ LibIdle

NextText ==
    \/ RenderText
    \/ ClearCache

SpecText == InitText /\ [][NextText]_vars

\* Calls of cleanup_audio_files() on an AUDIO_DIR holding any of the files
\* the narration and the mix write.
InitAudio ==
    /\ PipelineRest("audio_cleanup")
    /\ audio_dir \in SUBSET (TransientFiles \cup {FinalNarration, MixedAudio})
    /\ LibIdle

NextAudio == CleanupAudioFiles

SpecAudio == InitAudio /\ [][NextAudio]_vars

\* Calls of get_font_settings.
InitFont ==
    /\ PipelineIdle("font")
    /\ LibIdle

NextFont == GetFontSettings

SpecFont == InitFont /\ [][NextFont]_vars

\* The frames of one clip that apply_ken_burns_effect animates, rendered in
\* any order.
InitZoom ==
    /\ PipelineIdle("zoom")
    /\ AudioIdle
    /\ TextIdle
    /\ FontIdle
    /\ ZoomIdle
    /\ SchedIdle
    /\ CmdIdle
    /\ zoom_clip \in ZoomClips

NextZoom == ZoomEffect

SpecZoom == InitZoom /\ [][NextZoom]_vars

\* A quotes database of up to MaxQuotes quotes (an empty one included),
\* with no progress row or with a row whose index is in range.
InitStore ==
    /\ total_quotes \in 0..MaxQuotes
    /\ progress \in {NoRow} \cup 0..(total_quotes - 1)
    /\ sched_call = NoCall

\* Direct calls of the scheduler functions, in any order.
InitSched ==
    /\ PipelineIdle("sched")
    /\ AudioIdle
    /\ TextIdle
    /\ FontIdle
    /\ ZoomIdle
    /\ zoom_clip = NoClip
    /\ CmdIdle
    /\ InitStore

NextSched ==
    \/ GetNextQuote
    \/ AdvanceProgress
    \/ SetPosition

SpecSched == InitSched /\ [][NextSched]_vars

\* One command of main.py, from its first get_next_quote.
InitCmd ==
    /\ PipelineIdle("cmd_quote")
    /\ AudioIdle
    /\ TextIdle
    /\ FontIdle
    /\ ZoomIdle
    /\ zoom_clip = NoClip
    /\ InitStore
    /\ history = <<>>
    /\ cmd \in Commands
    /\ batch_i = 1
    /\ quote = -1
    /\ gen_result = "none"
    /\ snapshot = [history |-> 0, position |-> Position(progress)]

NextCmd ==
    \/ CmdNextQuote
    \/ CmdGenerate
    \/ CmdRecord
    \/ CmdUpload
    \/ CmdNext

SpecCmd == InitCmd /\ [][NextCmd]_vars

----------------------------------------------------------------------------
(* Properties *)

\* The function has built its layers list.
LayersBuilt == pc \in {"audio_track", "composite", "cleanup", "done"}

\* The layers of the list with a given name.
LayersNamed(n) == {i \in 1..Len(layers) : layers[i].name = n}

\* C1: generate_full_audio assembles silence(500), hook, silence(1200),
\* quote, silence(800), author, silence(1500), reflection, silence(800), and
\* records for every speech clip the cursor before and after its insertion:
\* hook_start = 500, hook_end = hook_start + len(hook), quote_start =
\* hook_end + 1200, and so on to reflection_end.
C1_TimelineOffsets ==
    pc = "tts_return" =>
        /\ timing.hook_start = 500
        /\ timing.hook_end = timing.hook_start + LenMs(hook_audio)
        /\ timing.quote_start = timing.hook_end + 1200
        /\ timing.quote_end = timing.quote_start + LenMs(quote_audio)
        /\ timing.author_start = timing.quote_end + 800
        /\ timing.author_end = timing.author_start + LenMs(author_audio)
        /\ timing.reflection_start = timing.author_end + 1500
        /\ timing.reflection_end =
              timing.reflection_start + LenMs(reflection_audio)

\* C1 witness: a timeline of four speech clips of different lengths.
C1_Witness ==
    /\ pc = "tts_return"
    /\ hook_text /\ reflection_text
    /\ LenMs(hook_audio) < LenMs(quote_audio)
    /\ LenMs(reflection_audio) < LenMs(author_audio)
    /\ timing.reflection_end = 49000

\* C2: with all four texts non-empty the timestamps are strictly increasing
\* and do not overlap, and reflection_end plus the trailing silence of
\* 800 ms is at most total_duration.
C2_MonotoneWithinTotal ==
    (pc = "tts_return" /\ hook_text /\ reflection_text) =>
        /\ timing.hook_start < timing.hook_end
        /\ timing.hook_end <= timing.quote_start
        /\ timing.quote_start < timing.quote_end
        /\ timing.quote_end <= timing.author_start
        /\ timing.author_start < timing.author_end
        /\ timing.author_end <= timing.reflection_start
        /\ timing.reflection_start < timing.reflection_end
        /\ timing.reflection_end + 800 <= timing.total_duration

\* C3: the total visual duration is max(min(narration + 4 s, 58 s), 30 s),
\* so it lies in [30 s, 58 s] for every narration duration.
C3_DurationClamped ==
    total_duration # -1 =>
        /\ 30000 <= total_duration
        /\ total_duration <= 58000
        /\ total_duration =
              (IF audio_duration + 4000 > 58000 THEN 58000
               ELSE IF audio_duration + 4000 < 30000 THEN 30000
               ELSE audio_duration + 4000)

\* C3 witness: a narration longer than MAX_DURATION, capped at 58 s.
C3_Witness == audio_duration > 58000 /\ total_duration = 58000

\* C4: every text overlay's window (start + duration) ends at the linger
\* after the narration: hook at hook_end + 1.0, quote and author at
\* author_end + 1.5, reflection at reflection_end + 1.5.
C4_OverlayEnds ==
    LayersBuilt =>
        \A i \in 1..Len(layers) :
            LET l == layers[i] IN
            /\ l.name = "hook" =>
                  l.start + l.duration = timing.hook_end + 1000
            /\ l.name = "quote" =>
                  l.start + l.duration = timing.author_end + 1500
            /\ l.name = "author" =>
                  l.start + l.duration = timing.author_end + 1500
            /\ l.name = "reflection" =>
                  l.start + l.duration = timing.reflection_end + 1500

\* C5: every text overlay starts before its narration, with its lead: hook
\* at hook_start - 0.3, quote at quote_start - 0.2, author at
\* author_start - 0.1, reflection at reflection_start - 0.3.
C5_OverlayStarts ==
    LayersBuilt =>
        \A i \in 1..Len(layers) :
            LET l == layers[i] IN
            /\ l.name = "hook" => l.start = timing.hook_start - 300
            /\ l.name = "quote" => l.start = timing.quote_start - 200
            /\ l.name = "author" => l.start = timing.author_start - 100
            /\ l.name = "reflection" =>
                  l.start = timing.reflection_start - 300

\* C5 witness: a layers list that holds all four text overlays.
C5_Witness ==
    /\ LayersBuilt
    /\ LayersNamed("hook") # {}
    /\ LayersNamed("quote") # {}
    /\ LayersNamed("author") # {}
    /\ LayersNamed("reflection") # {}

\* The call-to-action window [max(reflection_end + 0.5, total - 4.0), total].
CtaWindowStart == Max(timing.reflection_end + 500, total_duration - 4000)
CtaWindow == total_duration - CtaWindowStart

\* The call to action, when it is shown, occupies exactly its window.
CtaOccupiesWindow ==
    \A i \in LayersNamed("cta") :
        /\ layers[i].start = CtaWindowStart
        /\ layers[i].start + layers[i].duration = total_duration

\* C6 as stated: the call to action occupies its window and is suppressed
\* exactly when the window is shorter than 1 second (a window of 1 second
\* or more is shown).
C6_CtaShownFromOneSecond ==
    LayersBuilt =>
        /\ CtaOccupiesWindow
        /\ (LayersNamed("cta") = {}) <=> (CtaWindow < 1000)

\* C6 amended: the call to action occupies its window and is suppressed
\* exactly when the window is 1 second or shorter (only a window longer
\* than 1 second is shown).
C6_CtaShownAboveOneSecond ==
    LayersBuilt =>
        /\ CtaOccupiesWindow
        /\ Cardinality(LayersNamed("cta")) <= 1
        /\ (LayersNamed("cta") = {}) <=> (CtaWindow <= 1000)

\* C6 witness: a capped run whose window is exactly 1 second, suppressed.
C6_Witness ==
    /\ LayersBuilt
    /\ total_duration = 58000
    /\ CtaWindow = 1000
    /\ LayersNamed("cta") = {}

IsPrefix(s, t) == Len(s) <= Len(t) /\ s = SubSeq(t, 1, Len(s))

\* C7 as stated: the stages run in the order acquisition, grading,
\* narration, compositing, and the narration timestamps exist before any
\* overlay window is computed.
C7_StageOrder ==
    /\ IsPrefix(stages,
                <<"acquisition", "grading", "narration", "compositing">>)
    /\ layers # <<>> => timing # NoTiming

\* C7 amended: the stages run in the order narration, acquisition, grading,
\* compositing, and the narration timestamps exist before any overlay
\* window is computed.
C7_StageOrderNarrationFirst ==
    /\ IsPrefix(stages,
                <<"narration", "acquisition", "grading", "compositing">>)
    /\ layers # <<>> => timing # NoTiming
    /\ pc = "done" /\ caller = "generate_stoic_short" => Len(stages) = 4

\* C7 witness: a finished run, all four stages done and the overlays placed.
C7_Witness ==
    /\ pc = "done"
    /\ stages = <<"narration", "acquisition", "grading", "compositing">>
    /\ layers # <<>>

\* C8: a clip returned by get_dynamic_background, from any tier, is the one
\* the content filter checked last in that call and found free of people,
\* and every candidate checked before it was rejected (the first candidate
\* that passes is accepted); None is returned only when none has passed.
C8_ReturnedClipPassedFilter ==
    /\ \A i \in 1..(Len(filter_log) - 1) : filter_log[i].people
    /\ pc = "bg_return" =>
          IF bg_result = None
          THEN \A i \in 1..Len(filter_log) : filter_log[i].people
          ELSE /\ filter_log # <<>>
               /\ filter_log[Len(filter_log)].clip = bg_result
               /\ ~filter_log[Len(filter_log)].people

\* C8 witness: a clip accepted in the cache-scan tier after an earlier
\* candidate was rejected.
C8_Witness ==
    /\ pc = "bg_return"
    /\ bg_result # None
    /\ Len(filter_log) >= 2
    /\ filter_log[Len(filter_log)].tier = "scan"

\* The positions inside get_dynamic_background.
InAcquisition == pc \in {"bg_reuse", "bg_remote", "bg_scan", "bg_return"}

\* C9: one call makes at most 3 remote searches, each with a query not used
\* before in the call; a search or download that fails or returns nothing
\* uses up one attempt without an error, and after the third attempt the
\* call is in the cache-scan tier.
C9_ThreeDistinctQueries ==
    InAcquisition =>
        /\ searches <= 3
        /\ searches = attempt
        /\ Cardinality(tried_queries) = searches
        /\ err = "none"
        /\ pc = "bg_remote" => searches < 3
        /\ pc = "bg_scan" => searches = 3

\* C9 witness: three searches made with an API key, none gave a candidate,
\* one download broke off half-way, and the call moved to the scan tier.
C9_Witness ==
    /\ pc = "bg_scan"
    /\ api_key
    /\ searches = 3
    /\ filter_log = <<>>
    /\ partial # {}

\* The acquisition step of generate_stoic_short is over.
AcquisitionOver ==
    /\ caller = "generate_stoic_short"
    /\ pc \in {"grade", "overlays", "audio_track", "composite", "cleanup",
              "done"}
       \/ (pc = "failed" /\ "acquisition" \in Range(stages))

\* Whenever no filter call of the acquisition reported "no people" (no
\* candidate at all, or a person in every one), None is returned.
NoneWhenNothingPasses ==
    (pc = "bg_return" /\ \A i \in 1..Len(filter_log) : filter_log[i].people)
        => (bg_result = None /\ err = "none")

\* Neither the acquisition nor the grading of the background has raised: a
\* run that failed did so in a later step.
BackgroundUsable ==
    /\ err # "FileNotFoundError"
    /\ pc = "failed" => "compositing" \in Range(stages)

\* C10 as stated: acquisition always ends with a usable background and never
\* raises: get_dynamic_background returns None when nothing passes, and
\* generate_stoic_short then takes an unfiltered clip of the static pool.
C10_AlwaysABackground ==
    /\ NoneWhenNothingPasses
    /\ (AcquisitionOver /\ bg_result = None) =>
          /\ BackgroundUsable
          /\ bg_path.src = "static"
          /\ bg_path.clip \in pool

\* The run failed before the compositing step.
FailedBeforeCompositing ==
    pc = "failed" /\ "compositing" \notin Range(stages)

\* C10 amended: get_dynamic_background returns None when nothing passes, and
\* generate_stoic_short then takes an unfiltered file of the static pool,
\* provided the pool holds one; the file is opened unchecked, so the only
\* failure before compositing is then an OSError of the grading step on a
\* file that is no readable video.  With an empty pool
\* pick_random_background raises FileNotFoundError and the run fails.
C10_StaticPoolOrFileNotFound ==
    /\ NoneWhenNothingPasses
    /\ (AcquisitionOver /\ bg_result = None) =>
          IF pool # {}
          THEN /\ err # "FileNotFoundError"
               /\ bg_path.src = "static"
               /\ bg_path.clip \in pool
               /\ FailedBeforeCompositing =>
                     /\ err = "OSError"
                     /\ "grading" \in Range(stages)
                     /\ background = "none"
          ELSE /\ err = "FileNotFoundError"
               /\ pc = "failed"
               /\ bg_path = NoPath

\* C10 witness: the key is set, the detector reports a person in every clip,
\* the cache holds a whole clip (which the reuse or the scan tier has
\* therefore looked at and rejected, neither of which deletes it), None was
\* returned and the run has graded a clip of the static pool.
C10_Witness ==
    /\ pc = "overlays"
    /\ api_key
    /\ people = Clips
    /\ disk # <<>>
    /\ partial = {}
    /\ bg_result = None
    /\ bg_path.src = "static"
    /\ bg_path.clip \in pool
    /\ background # "none"

\* C11: a clip that was rejected and deleted during a call is not the one the
\* call returns: every path get_dynamic_background returns names a file that
\* exists in the cache directory when the call returns.
C11_ReturnedClipExists ==
    (pc = "bg_return" /\ bg_result # None) => bg_result \in Range(disk)

\* The call returns a clip the remote tier has just accepted.
AcceptedFresh ==
    /\ pc = "bg_return"
    /\ bg_result # None
    /\ filter_log[Len(filter_log)].tier = "remote"

\* C12: the pruning after a fresh clip is accepted leaves at most 20 files,
\* evicting the oldest by mtime, and never evicts the clip the call has just
\* accepted, also when that clip was already in the cache with an old mtime.
C12_PruneKeepsAccepted ==
    AcceptedFresh =>
        /\ Len(disk) <= MAX_CACHE_FILES
        /\ bg_result \in Range(disk)

\* C13: when the TTS backend fails on a segment, generate_full_audio fails
\* as a whole with TTSError: no timeline and no duration is returned, no
\* final narration file is written, the segment is not tried again and no
\* later segment is synthesized (the call has ended; the segments loaded are
\* the ones before the failing one).
C13_TtsFailureIsFatal ==
    err = "TTSError" =>
        /\ pc = "failed"
        /\ timing = NoTiming
        /\ audio_duration = -1
        /\ FinalNarration \notin audio_dir
        /\ reflection_audio = -1
        /\ author_audio # -1 => quote_audio # -1
        /\ quote_audio # -1 => hook_audio # -1
        /\ Len(temp_files) = (IF hook_audio # -1 THEN 1 ELSE 0)
                              + (IF quote_audio # -1 THEN 1 ELSE 0)
                              + (IF author_audio # -1 THEN 1 ELSE 0)
        /\ layers = <<>>

\* C13 witness: the backend failed on the author segment, after the hook and
\* the quote were synthesized.
C13_Witness ==
    /\ err = "TTSError"
    /\ temp_files = <<"_tts_hook", "_tts_quote">>
    /\ author_audio = -1

\* C14: on every exit path of generate_full_audio, the failing ones
\* included, none of the transient per-segment files remains on disk.
C14_NoTransientFileLeft ==
    pc \in {"failed", "tts_return"} => audio_dir \cap TransientFiles = {}

\* generate_stoic_short has exited, by a return or by an exception.
RunOver == caller = "generate_stoic_short" /\ pc \in {"done", "failed"}

\* C15: the cleanup (unlink the temp mixed audio, close the narration,
\* mixed-audio, background and final-video handles) has run on every exit
\* path of generate_stoic_short, also when an earlier step failed.
C15_CleanupOnEveryExit ==
    RunOver => (handles = {} /\ MixedAudio \notin audio_dir)

\* C16: a failed run leaves no partial video at the output path: whenever
\* generate_stoic_short exits with an error the output file does not exist
\* (it did not exist before the run).
C16_NoPartialVideo ==
    (RunOver /\ err # "none") => (pc = "failed" /\ video_file = "absent")

\* C17: when the hook or the reflection text is empty and generate_full_audio
\* returns, that segment has zero duration (start = end) and the fixed
\* silences around it are still applied.
C17_EmptySegmentZeroWidth ==
    pc = "tts_return" =>
        /\ ~hook_text => timing.hook_end = timing.hook_start
        /\ ~reflection_text =>
              timing.reflection_end = timing.reflection_start
        /\ timing.hook_start = INTRO_SILENCE_MS
        /\ timing.quote_start = timing.hook_end + PAUSE_AFTER_HOOK_MS
        /\ timing.reflection_start =
              timing.author_end + PAUSE_AFTER_AUTHOR_MS

\* The run failed in the synthesis of the reflection segment: the three
\* segments before it were synthesized and generate_speech raised for it.
FailedAtReflection ==
    /\ pc = "failed"
    /\ err = "TTSError"
    /\ author_audio # -1
    /\ reflection_audio = -1

\* C18: with an empty reflection_text a run does not crash on the empty
\* segment, and once its layers are built they hold no reflection overlay
\* and its total duration is the narration's duration (the remaining
\* segments and all the fixed silences) plus the CTA tail, clamped to
\* [MIN_DURATION, MAX_DURATION].
C18_EmptyReflectionCompletes ==
    ~reflection_text =>
        /\ ~FailedAtReflection
        /\ LayersBuilt =>
              /\ LayersNamed("reflection") = {}
              /\ LayersNamed("quote") # {}
              /\ LayersNamed("author") # {}
              /\ timing.reflection_start =
                    timing.author_end + PAUSE_AFTER_AUTHOR_MS
              /\ audio_duration >= timing.reflection_end
              /\ total_duration =
                    (IF audio_duration + 4000 > 58000 THEN 58000
                     ELSE IF audio_duration + 4000 < 30000 THEN 30000
                     ELSE audio_duration + 4000)

\* C19: the total duration generate_full_audio reports (the returned
\* duration and timing["total_duration"]) is the absolute duration of the
\* assembled timeline, 500 + len(hook) + 1200 + len(quote) + 800 +
\* len(author) + 1500 + len(reflection) + 800 ms, i.e. reflection_end + 0.8 s.
C19_TotalIsTimelineEnd ==
    pc = "tts_return" =>
        /\ audio_duration = timing.total_duration
        /\ timing.total_duration =
              INTRO_SILENCE_MS + LenMs(hook_audio) + PAUSE_AFTER_HOOK_MS
              + LenMs(quote_audio) + PAUSE_AFTER_QUOTE_MS
              + LenMs(author_audio) + PAUSE_AFTER_AUTHOR_MS
              + LenMs(reflection_audio) + OUTRO_SILENCE_MS
        /\ timing.total_duration = timing.reflection_end + OUTRO_SILENCE_MS

\* The detector raised while has_people was looking at the frames: a frame
\* raises and no frame before it held a detection.
DetectorRaised ==
    \E j \in 1..Len(detector.frames) :
        /\ detector.frames[j].raises
        /\ \A i \in 1..(j - 1) :
              \A w \in detector.frames[i].weights : w <= 3

\* Some sampled frame holds a detection above the confidence threshold.
SomeFrameDetects ==
    \E i \in 1..Len(detector.frames) :
        \E w \in detector.frames[i].weights : w > 3

\* C20: has_people reports a person exactly when a sampled frame yields a
\* detection above the confidence threshold; when the detection backend is
\* unavailable (not importable, OpenCV missing) or the detector raises, it
\* reports no people.
C20_PersonIffFrameDetects ==
    verdict # "unset" =>
        IF ~detector.importable \/ ~detector.available
           \/ ~detector.extracts \/ DetectorRaised
        THEN verdict = "no people"
        ELSE verdict = (IF SomeFrameDetects THEN "people" ELSE "no people")

\* C20 witness: the first frame holds only a detection at the threshold, the
\* second one above it, and a person is reported.
C20_Witness ==
    /\ verdict = "people"
    /\ Len(detector.frames) = 2
    /\ detector.frames[1].weights = {3}
    /\ detector.frames[2].weights = {4}

\* C21: a downloaded clip is in the cache directory under its final name
\* only once it is completely written: after no failed or interrupted
\* download does get_dynamic_background return a partially written file.
C21_NoPartialClipReturned ==
    (pc = "bg_return" /\ bg_result # None) => bg_result \notin partial

\* C22: a failure of the zoom step, when the effect is set up or when a later
\* frame is rendered, never aborts the pipeline: the graded clip is then the
\* static one and no run fails with the exception zoom_effect raised.
C22_ZoomFailureFallsBack ==
    /\ ken_burns = "setup_fails" => background \in {"none", "static"}
    /\ ken_burns \in {"setup_fails", "frame_fails"} =>
          ~(pc = "failed" /\ err = "zoom_effect error")

\* C23: the audio track is the narration alone when no ambient bed exists
\* and whenever mixing the bed fails, in building it or in writing the mix,
\* and a failure of the bed never aborts the run.
C23_AmbientFailureFallsBack ==
    /\ ambient \in {"none", "build_fails"} =>
          audio_track \in {"none", "narration"}
    /\ ambient \in {"none", "build_fails", "write_fails"} =>
          ~(pc = "failed" /\ err = "ambient error")

\* C24: render_text is a pure mapping of its parameters: each call returns
\* the raster an uncached computation with that call's arguments gives.
C24_CacheNeverChangesResult ==
    raster # NoRaster => raster = DrawText(render_args)

\* C25: get_font_settings gives the short tier (72, 4 words per line) up to
\* 12 words, the medium tier from 13 to 25, the long tier from 26 to 45 and
\* the extra tier above, more than 999 words included; the result depends on
\* the word count alone.
C25_FontTiers ==
    font_settings # NoSettings =>
        font_settings =
            IF word_count <= 12
            THEN [font_size |-> 72, words_per_line |-> 4]
            ELSE IF word_count <= 25
            THEN [font_size |-> 58, words_per_line |-> 5]
            ELSE IF word_count <= 45
            THEN [font_size |-> 48, words_per_line |-> 6]
            ELSE [font_size |-> 40, words_per_line |-> 7]

C25_Witness ==
    /\ word_count = 13
    /\ font_settings = [font_size |-> 58, words_per_line |-> 5]

\* C27: for zoom_ratio >= 1 the crop box at time t in [0, duration] is
\* centered (to the pixel), is the full frame at t = 0, has the frame's size
\* divided by zoom_ratio (in whole pixels) at t = duration, never grows as t
\* increases, and lies inside the frame with positive width and height.
C27_CropWindow ==
    crop # NoCrop =>
        LET w == zoom_clip.w
            h == zoom_clip.h
            new_w == crop.x2 - crop.x1
            new_h == crop.y2 - crop.y1
        IN  /\ (w - crop.x2) - crop.x1 \in {0, 1}
            /\ (h - crop.y2) - crop.y1 \in {0, 1}
            /\ frame_t = 0 =>
                  crop = [x1 |-> 0, y1 |-> 0, x2 |-> w, y2 |-> h]
            /\ frame_t = zoom_clip.duration =>
                  /\ new_w = (w * NO_ZOOM) \div zoom_clip.zoom_ratio
                  /\ new_h = (h * NO_ZOOM) \div zoom_clip.zoom_ratio
            /\ (prev_crop # NoCrop /\ prev_t <= frame_t) =>
                  /\ new_w <= prev_crop.x2 - prev_crop.x1
                  /\ new_h <= prev_crop.y2 - prev_crop.y1
            /\ 0 <= crop.x1 /\ crop.x2 <= w
            /\ 0 <= crop.y1 /\ crop.y2 <= h
            /\ new_w > 0 /\ new_h > 0

\* The place of a layer in the stated z-order: background, decorative
\* layers, text layers, branding.
LayerRank(n) ==
    IF n = "background" THEN 0
    ELSE IF n = "line" THEN 1
    ELSE IF n = "branding" THEN 3
    ELSE 2

\* C26: the layers list is in the z-order background, decorative layers,
\* text layers, branding; the branding layer is in every list, on top, and
\* spans [0, total_duration].
C26_LayerOrder ==
    LayersBuilt =>
        /\ layers[1].name = "background"
        /\ layers[Len(layers)] = Layer("branding", 0, total_duration)
        /\ \A i, j \in 1..Len(layers) :
              i < j => LayerRank(layers[i].name) <= LayerRank(layers[j].name)

\* C30: no overlay starts at a negative time and none has a duration that
\* is not positive: hook_start is 0.5 s, quote_start is at least 1.7 s, no
\* lead pushes a start below 0, and author_end is after quote_start, so the
\* quote overlay lasts to author_end + 1.5 s and not to the 3-second
\* substitute.
C30_OverlaysLegal ==
    /\ timing # NoTiming =>
          /\ timing.hook_start = 500
          /\ timing.quote_start >= 1700
          /\ timing.author_end > timing.quote_start
    /\ LayersBuilt =>
          /\ \A i \in 1..Len(layers) :
                layers[i].start >= 0 /\ layers[i].duration > 0
          /\ \A i \in LayersNamed("quote") :
                layers[i].duration =
                    timing.author_end - timing.quote_start + 1500

\* C30 witness: a list with the hook overlay, whose lead leaves its start
\* above 0, and with the quote overlay.
C30_Witness ==
    /\ LayersBuilt
    /\ \E i \in LayersNamed("hook") :
          layers[i].start = timing.hook_start - 300 /\ layers[i].start > 0
    /\ LayersNamed("quote") # {}

\* C28: the command records a history entry and advances the position only
\* after generate_stoic_short has returned: while it has not, and after it
\* has raised, the history and the stored position are what they were when
\* the video began; cmd_batch does not stop at a failure and ends only after
\* its last video.
C28_RecordOnlyAfterSuccess ==
    /\ gen_result # "returned" =>
          /\ Len(history) = snapshot.history
          /\ Position(progress) = snapshot.position
    /\ cmd.name = "batch" =>
          /\ pc # "cmd_raised"
          /\ pc = "cmd_done" => batch_i = cmd.count

\* C28 witness: a batch of two videos whose first generation raised and
\* whose second was recorded.
C28_Witness ==
    /\ cmd.name = "batch"
    /\ pc = "cmd_done"
    /\ batch_i = 2
    /\ gen_result = "returned"
    /\ Len(history) = 1

\* C29: for a database of N >= 1 quotes, the stored current_index lies in
\* [0, N - 1] after any sequence of
\* scheduler calls; advance_progress moves the position by one and wraps
\* from N - 1 to 0; set_position outside [0, N - 1] raises and leaves the
\* stored index unchanged.
C29_IndexInRange ==
    total_quotes >= 1 =>
        /\ progress # NoRow => progress \in 0..(total_quotes - 1)
        /\ sched_call.op = "advance_progress" =>
              Position(progress) =
                  (Position(sched_call.before) + 1) % total_quotes
        /\ (sched_call.op = "set_position"
              /\ sched_call.arg \notin 0..(total_quotes - 1)) =>
              sched_call.raised /\ progress = sched_call.before
====
